---------------------------- MODULE Spec2Model ----------------------------
(***************************************************************************)
(* Build planning of pyro's PapyrusProject (src/pyro/PapyrusProject.py):   *)
(* variable resolution, import-root resolution, script location, the       *)
(* incremental filter and command assembly.                                *)
(*                                                                         *)
(* A path is a sequence of one-character strings; "/" is the separator and *)
(* the extensions ".psc" / ".pex" are single elements.  A dict is a        *)
(* sequence of <<key, value>> pairs in insertion order (Python 3.7+).      *)
(***************************************************************************)
EXTENDS Naturals, Sequences, FiniteSets, TLC

\* ------------------------------------------------------------------ bounds
MaxImports == 2     \* Import nodes in the descriptor
MaxFolders == 1     \* Folder nodes in the descriptor
MaxScripts == 1     \* Script nodes in the descriptor
MaxTime    == 1     \* time stamps (compile instants, mtimes) are 0..MaxTime
MaxVars    == 5     \* declared variables

\* ------------------------------------------------------ strings and paths
SEP    == "/"
PARDIR == <<".", ".">>
CURDIR == <<".">>
PSC    == ".psc"
PEX    == ".pex"

\* str.casefold(), one character
LowerChar(c) == IF c = "A" THEN "a" ELSE c

\* str.casefold()
Lower(s) == [i \in 1..Len(s) |-> LowerChar(s[i])]

\* str.startswith(prefix)
StartsWith(s, prefix) ==
    /\ Len(prefix) <= Len(s)
    /\ SubSeq(s, 1, Len(prefix)) = prefix

\* str.endswith(suffix)
EndsWith(s, suffix) ==
    /\ Len(suffix) <= Len(s)
    /\ SubSeq(s, Len(s) - Len(suffix) + 1, Len(s)) = suffix

\* x in list
InList(x, list) == \E i \in 1..Len(list) : list[i] = x

\* os.path.isabs
IsAbs(p) == Len(p) > 0 /\ p[1] = SEP

\* os.path.join(a, b)
Join(a, b) ==
    IF IsAbs(b) THEN b
    ELSE IF Len(a) = 0 \/ a[Len(a)] = SEP THEN a \o b
    ELSE a \o <<SEP>> \o b

\* str.split('/') : the components of a path (empty ones included)
RECURSIVE SplitFrom(_, _, _, _)
SplitFrom(p, i, cur, acc) ==
    IF i > Len(p) THEN Append(acc, cur)
    ELSE IF p[i] = SEP THEN SplitFrom(p, i + 1, <<>>, Append(acc, cur))
    ELSE SplitFrom(p, i + 1, Append(cur, p[i]), acc)

Split(p) == SplitFrom(p, 1, <<>>, <<>>)

\* '/'.join(comps)
RECURSIVE JoinComps(_)
JoinComps(comps) ==
    IF Len(comps) = 0 THEN <<>>
    ELSE IF Len(comps) = 1 THEN comps[1]
    ELSE comps[1] \o <<SEP>> \o JoinComps(Tail(comps))

\* posixpath.normpath: the component stack after dropping "" and ".", and
\* resolving ".." against the previous component
RECURSIVE NormComps(_, _, _, _)
NormComps(comps, i, abs, acc) ==
    IF i > Len(comps) THEN acc
    ELSE LET c == comps[i] IN
         IF c = <<>> \/ c = CURDIR THEN NormComps(comps, i + 1, abs, acc)
         ELSE IF c # PARDIR THEN NormComps(comps, i + 1, abs, Append(acc, c))
         ELSE IF Len(acc) > 0 /\ acc[Len(acc)] # PARDIR
              THEN NormComps(comps, i + 1, abs, SubSeq(acc, 1, Len(acc) - 1))
         ELSE IF abs THEN NormComps(comps, i + 1, abs, acc)
         ELSE NormComps(comps, i + 1, abs, Append(acc, c))

\* os.path.normpath
NormPath(p) ==
    LET comps == NormComps(Split(p), 1, IsAbs(p), <<>>)
        body  == JoinComps(comps)
    IN  IF IsAbs(p) THEN <<SEP>> \o body
        ELSE IF Len(body) = 0 THEN CURDIR
        ELSE body

\* index of the last separator of p, 0 if none
RECURSIVE LastSep(_, _)
LastSep(p, i) == IF i = 0 THEN 0 ELSE IF p[i] = SEP THEN i ELSE LastSep(p, i - 1)

\* os.path.dirname
DirName(p) ==
    LET k == LastSep(p, Len(p)) IN
    IF k = 0 THEN <<>> ELSE IF k = 1 THEN <<SEP>> ELSE SubSeq(p, 1, k - 1)

\* os.path.basename
BaseName(p) == SubSeq(p, LastSep(p, Len(p)) + 1, Len(p))

\* os.path.splitext(p)[0]
SplitExtRoot(p) ==
    IF Len(p) > 1 /\ p[Len(p)] \in {PSC, PEX} THEN SubSeq(p, 1, Len(p) - 1) ELSE p

\* str.replace('.psc', '.pex')
ReplacePscPex(s) == [i \in 1..Len(s) |-> IF s[i] = PSC THEN PEX ELSE s[i]]

\* str.replace(':', os.sep)
ReplaceColon(s) == [i \in 1..Len(s) |-> IF s[i] = ":" THEN SEP ELSE s[i]]

\* ';'.join(list)
RECURSIVE JoinSemi(_)
JoinSemi(list) ==
    IF Len(list) = 0 THEN <<>>
    ELSE IF Len(list) = 1 THEN list[1]
    ELSE list[1] \o <<";">> \o JoinSemi(Tail(list))

\* length of the common prefix of two component lists
RECURSIVE CommonLen(_, _, _)
CommonLen(a, b, i) ==
    IF i < Len(a) /\ i < Len(b) /\ a[i + 1] = b[i + 1] THEN CommonLen(a, b, i + 1) ELSE i


\* os.path.relpath(path, start), posix, both made absolute against cwd
RelPath(path, start, cwd) ==
    LET clean(x) == NormComps(Split(NormPath(Join(cwd, x))), 1, TRUE, <<>>)
        pl == clean(path)
        sl == clean(start)
        i  == CommonLen(pl, sl, 0)
        rel == [k \in 1..(Len(sl) - i) |-> PARDIR] \o SubSeq(pl, i + 1, Len(pl))
    IN  IF Len(rel) = 0 THEN CURDIR ELSE JoinComps(rel)

\* ----------------------------------------------------------------- dicts
Keys(d)   == {d[i][1] : i \in 1..Len(d)}
Values(d) == {d[i][2] : i \in 1..Len(d)}

\* d[k] = v : an existing key keeps its position, a new key is appended
DictPut(d, k, v) ==
    IF k \in Keys(d)
    THEN [i \in 1..Len(d) |-> IF d[i][1] = k THEN <<k, v>> ELSE d[i]]
    ELSE Append(d, <<k, v>>)

DictGet(d, k) == d[CHOOSE i \in 1..Len(d) : d[i][1] = k][2]

\* list.remove(x) : removes the first occurrence
RECURSIVE ListRemove(_, _)
ListRemove(list, x) ==
    IF Len(list) = 0 THEN list
    ELSE IF list[1] = x THEN Tail(list)
    ELSE <<list[1]>> \o ListRemove(Tail(list), x)

\* ------------------------------------------------- the file system (fixed)
ProjectPath  == <<"/", "p">>
OutputPath   == <<"/", "o">>
CompilerPath == <<"/", "c">>
FlagsPath    == <<"/", "g">>
RemoteTemp   == <<"/">>

\* existing directories (the file system compares names case-insensitively)
Dirs ==
    { <<"/", "p">>,
      <<"/", "p", "/", "a">>,
      <<"/", "p", "/", "a", "/", "f">>,
      <<"/", "p", "/", "a", "b">>,
      <<"/", "r">>,
      <<"/", "o">> }

\* existing script sources, in directory-scan order
SourceFiles ==
    << <<"/", "p", "/", "a", "/", "x", PSC>>,
       <<"/", "p", "/", "a", "/", "f", "/", "x", PSC>>,
       <<"/", "p", "/", "a", "b", "/", "x", PSC>>,
       <<"/", "r", "/", "x", PSC>> >>

\* the artifact locations whose state the model varies
PexUniverse ==
    { <<"/", "o", "/", "x", PEX>>,
      <<"/", "o", "/", "f", "/", "x", PEX>> }

Times == 0..MaxTime

\* the working directory of the run
Cwd == ProjectPath

\* an artifact is absent, has an unrecognized magic, or has a header that
\* records a compile time
ArtifactStates ==
    { [kind |-> "absent", time |-> 0], [kind |-> "badmagic", time |-> 0] }
    \cup { [kind |-> "pex", time |-> t] : t \in Times }

Absent == [kind |-> "absent", time |-> 0]

\* os.path.isdir
IsDir(p) == Lower(NormPath(Join(Cwd, p))) \in Dirs

\* os.path.isfile, for a script source
IsSourceFile(p) == InList(Lower(NormPath(Join(Cwd, p))), SourceFiles)

\* the state of the artifact at path p
ArtifactAt(art, p) ==
    IF Lower(p) \in DOMAIN art THEN art[Lower(p)] ELSE Absent

\* os.path.isfile
IsFile(art, p) == IsSourceFile(p) \/ ArtifactAt(art, p).kind # "absent"

\* ------------------------------------------------------------- descriptor
REMOTE == "http:"

\* startswith(node.text, self.remote_schemas, ignorecase=True)
IsRemote(text) == Len(text) > 0 /\ text[1] \in {"http:", "https:"}

\* "n" is no directory; the cache directory of http:r exists, the one of
\* http:m does not (a fetch that reported no failure and left nothing there)
ImportEntries ==
    { <<"a">>, <<"A">>, <<"a", "b">>, PARDIR, <<"n">>, <<REMOTE, "r">>, <<REMOTE, "m">> }

FolderEntries ==
    { [text |-> <<"a">>,               no_recurse |-> FALSE],
      [text |-> <<"a">>,               no_recurse |-> TRUE],
      [text |-> <<".", "/", "a", "b">>, no_recurse |-> FALSE],
      [text |-> <<REMOTE, "r">>,       no_recurse |-> FALSE] }

ScriptEntries ==
    { <<"x", PSC>>, <<"f", ":", "x", PSC>> }

GameTypes == {"FO4", "SSE"}

\* sequences over S of length at most n
SeqUpTo(S, n) == UNION {[1..k -> S] : k \in 0..n}

\* ------------------------------------------- PathHelper, content fetcher
\* PathHelper.uniqify: first-seen order, case-insensitive
RECURSIVE UniqifyFrom(_, _, _)
UniqifyFrom(items, i, acc) ==
    IF i > Len(items) THEN acc
    ELSE IF \E j \in 1..Len(acc) : Lower(acc[j]) = Lower(items[i])
         THEN UniqifyFrom(items, i + 1, acc)
         ELSE UniqifyFrom(items, i + 1, Append(acc, items[i]))

uniqify(items) == UniqifyFrom(items, 1, <<>>)

\* PathHelper.merge_implicit_import_paths: the implicit roots are appended
\* after the roots already there, in first-discovered order, de-duplicated
merge_implicit_import_paths(implicit_paths, paths) ==
    UniqifyFrom(implicit_paths, 1, paths)

\* the root that is the longest case-insensitive prefix of script_path, the
\* first such in root order; 0 if none
RECURSIVE LongestPrefixFrom(_, _, _, _)
LongestPrefixFrom(script_path, paths, i, best) ==
    IF i > Len(paths) THEN best
    ELSE IF /\ StartsWith(Lower(script_path), Lower(paths[i]))
            /\ Len(script_path) > Len(paths[i])
            /\ (best = 0 \/ Len(paths[i]) > Len(paths[best]))
         THEN LongestPrefixFrom(script_path, paths, i + 1, i)
         ELSE LongestPrefixFrom(script_path, paths, i + 1, best)

\* PathHelper.calculate_relative_object_name
calculate_relative_object_name(script_path, paths) ==
    LET b == LongestPrefixFrom(script_path, paths, 1, 0) IN
    IF b = 0 THEN script_path
    ELSE LET rest == SubSeq(script_path, Len(paths[b]) + 1, Len(script_path))
         IN  IF rest[1] = SEP THEN Tail(rest) ELSE rest

\* PathHelper.find_script_paths_from_folder
find_script_paths_from_folder(folder, no_recurse) ==
    LET under(f) == /\ StartsWith(f, Lower(folder) \o <<SEP>>)
                    /\ (no_recurse => DirName(f) = Lower(folder))
        found(f) == folder \o SubSeq(f, Len(folder) + 1, Len(f))
    IN  SelectSeq([i \in 1..Len(SourceFiles) |->
                      IF under(SourceFiles[i]) THEN found(SourceFiles[i]) ELSE <<>>],
                  LAMBDA f : f # <<>>)

\* PapyrusProject._get_remote_path: the cache directory of a remote reference
_get_remote_path(text) == Join(RemoteTemp, Tail(text))

\* ------------------------------------------------------------------ state
VARIABLES
    pc,               \* the step of planning that runs next
    variables_node,   \* <Variables>: sequence of [Name, Value]
    imports_node,     \* <Imports>: sequence of node texts
    folders_node,     \* <Folders>: sequence of [text, no_recurse]
    scripts_node,     \* <Scripts>: sequence of node texts
    variables,        \* self.variables
    import_paths,     \* self.import_paths
    psc_paths,        \* self.psc_paths
    pex_paths,        \* self.pex_paths
    missing_scripts,  \* self.missing_scripts
    game_type,        \* self.options.game_type
    artifacts,        \* compiled artifacts on disk, by path
    mtime,            \* modification time of the script sources
    options,          \* no_incremental_build, optimize, release, final
    filtered,         \* build_commands: psc_paths after the filter
    commands          \* build_commands: the result

vars == << pc, variables_node, imports_node, folders_node, scripts_node,
           variables, import_paths, psc_paths, pex_paths, missing_scripts,
           game_type, artifacts, mtime, options, filtered, commands >>

NoOptions ==
    [no_incremental_build |-> FALSE, optimize |-> FALSE,
     release |-> FALSE, final |-> FALSE]

Unobserved == [p \in PexUniverse |-> Absent]

\* the fields every run starts with
Blank ==
    /\ variables = <<>>
    /\ import_paths = <<>>
    /\ psc_paths = <<>>
    /\ pex_paths = <<>>
    /\ missing_scripts = <<>>
    /\ game_type = ""
    /\ artifacts = Unobserved
    /\ mtime = 0
    /\ options = NoOptions
    /\ filtered = <<>>
    /\ commands = <<>>

\* a descriptor without a Variables node
Init ==
    /\ pc = "imports"
    /\ variables_node = <<>>
    /\ imports_node \in SeqUpTo(ImportEntries, MaxImports)
    /\ folders_node \in SeqUpTo(FolderEntries, MaxFolders)
    /\ scripts_node \in SeqUpTo(ScriptEntries, MaxScripts)
    /\ Blank

\* ------------------------------------------------------ _parse_variables
\* A value is a sequence of items: <<c>> is the character c, <<"$", n>> is
\* the substitution token that names variable <<n>>.
TOKEN == "$"
IsToken(item) == Len(item) > 1 /\ item[1] = TOKEN
TokenName(item) == Tail(item)

VarNames == <<"a", "b", "c", "d", "e", "f", "g">>
Alnum    == {VarNames[i] : i \in 1..Len(VarNames)} \cup {"1"}
ReservedCharacters == {"!", "#", "^", "&", "*"}

\* str.isalnum()
IsAlnum(key) == Len(key) > 0 /\ \A i \in 1..Len(key) : key[i] \in Alnum

\* any(c in reserved_characters for c in value)
HasReserved(value) ==
    \E i \in 1..Len(value) : ~IsToken(value[i]) /\ value[i][1] \in ReservedCharacters

\* ProjectBase.parse: every token that names a declared variable is replaced
\* by that variable's current value, once
RECURSIVE parse(_, _)
parse(value, table) ==
    IF Len(value) = 0 THEN <<>>
    ELSE LET item == value[1]
             sub  == IF IsToken(item) /\ TokenName(item) \in Keys(table)
                     THEN DictGet(table, TokenName(item))
                     ELSE <<item>>
         IN  sub \o parse(Tail(value), table)

\* a faulty DeclareLoop: a declaration with an empty name or value is not
\* skipped
RECURSIVE DeclareLoop_NoSkip(_, _, _)
DeclareLoop_NoSkip(nodes, i, table) ==
    IF i > Len(nodes) THEN [ok |-> TRUE, table |-> table]
    ELSE LET key == nodes[i].Name
             value == nodes[i].Value
         IN  IF ~IsAlnum(key) \/ HasReserved(value) THEN [ok |-> FALSE, table |-> table]
             ELSE DeclareLoop_NoSkip(nodes, i + 1, DictPut(table, key, value))

\* lines 228-242; ok = FALSE is sys.exit(1)
RECURSIVE DeclareLoop(_, _, _)
DeclareLoop(nodes, i, table) ==
    IF i > Len(nodes) THEN [ok |-> TRUE, table |-> table]
    ELSE LET key == nodes[i].Name
             value == nodes[i].Value
         IN  IF key = <<>> \/ value = <<>> THEN DeclareLoop(nodes, i + 1, table)
             ELSE IF ~IsAlnum(key) \/ HasReserved(value) THEN [ok |-> FALSE, table |-> table]
             ELSE DeclareLoop(nodes, i + 1, DictPut(table, key, value))

\* lines 244-246: one pass over the table in declaration order
RECURSIVE ForwardPass(_, _)
ForwardPass(table, i) ==
    IF i > Len(table) THEN table
    ELSE ForwardPass(DictPut(table, table[i][1], parse(table[i][2], table)), i + 1)

\* lines 248-251: one pass in reverse declaration order
RECURSIVE ReversePass(_, _)
ReversePass(table, i) ==
    IF i = 0 THEN table
    ELSE ReversePass(DictPut(table, table[i][1], parse(table[i][2], table)), i - 1)

_parse_variables(nodes) ==
    LET d == DeclareLoop(nodes, 1, <<>>) IN
    IF ~d.ok THEN d
    ELSE [ok |-> TRUE, table |-> ReversePass(ForwardPass(d.table, 1), Len(d.table))]

\* __init__, lines 79-82
ParseVariables ==
    /\ pc = "variables"
    /\ LET r == _parse_variables(variables_node) IN
       /\ variables' = r.table
       /\ pc' = IF r.ok THEN "imports" ELSE "fatal"
    /\ UNCHANGED << variables_node, imports_node, folders_node, scripts_node,
                    import_paths, psc_paths, pex_paths, missing_scripts, game_type,
                    artifacts, mtime, options, filtered, commands >>

\* the declared names of the variable tables the model draws
Declared == {VarNames[i] : i \in 1..MaxVars}

\* a value is a literal or one token
SimpleValues == { << <<"1">> >> } \cup { << <<TOKEN, n>> >> : n \in Declared }

\* following the tokens from name n ends at a literal within k steps
RECURSIVE Grounded(_, _, _)
Grounded(raw, n, k) ==
    IF ~IsToken(raw[n][1]) THEN TRUE
    ELSE IF k = 0 THEN FALSE
    ELSE Grounded(raw, TokenName(raw[n][1])[1], k - 1)

\* the non-cyclic tables over the declared names, in the order of VarNames
NonCyclicTables ==
    { [i \in 1..MaxVars |-> [Name |-> <<VarNames[i]>>, Value |-> raw[VarNames[i]]]] :
        raw \in { r \in [Declared -> SimpleValues] : \A n \in Declared : Grounded(r, n, MaxVars) } }

\* a declaration with a possibly invalid name or value
OddDeclarations ==
    { [Name |-> n, Value |-> v] :
        n \in { <<"a">>, <<"b">>, <<"a", "-">>, <<>> },
        v \in { << <<"1">> >>, << <<"!">> >>, << <<"a">>, <<"#">> >>, <<>> } }

\* one or two such declarations
OddTables == { << d >> : d \in OddDeclarations } \cup (OddDeclarations \X OddDeclarations)

\* a descriptor that holds a Variables node only
InitVars ==
    /\ pc = "variables"
    /\ variables_node \in NonCyclicTables \cup OddTables
    /\ imports_node = <<>>
    /\ folders_node = <<>>
    /\ scripts_node = <<>>
    /\ Blank

\* --------------------------------------------------- _get_import_paths
\* a faulty ImportLoop: an import equal to the parent-directory token is
\* treated like a path that does not exist
RECURSIVE ImportLoop_PardirFatal(_, _, _)
ImportLoop_PardirFatal(nodes, i, results) ==
    IF i > Len(nodes) THEN [ok |-> TRUE, paths |-> results]
    ELSE IF IsRemote(nodes[i])
         THEN ImportLoop_PardirFatal(nodes, i + 1, Append(results, _get_remote_path(nodes[i])))
    ELSE LET norm == NormPath(nodes[i])
             import_path ==
                 IF norm = CURDIR THEN ProjectPath
                 ELSE IF ~IsAbs(norm) THEN NormPath(Join(ProjectPath, norm))
                 ELSE norm
         IN  IF norm # PARDIR /\ IsDir(import_path)
             THEN ImportLoop_PardirFatal(nodes, i + 1, Append(results, import_path))
             ELSE [ok |-> FALSE, paths |-> results]

\* the loop over the Import nodes; ok = FALSE is sys.exit(1)
RECURSIVE ImportLoop(_, _, _)
ImportLoop(nodes, i, results) ==
    IF i > Len(nodes) THEN [ok |-> TRUE, paths |-> results]
    ELSE IF IsRemote(nodes[i])
         THEN ImportLoop(nodes, i + 1, Append(results, _get_remote_path(nodes[i])))
    ELSE LET norm == NormPath(nodes[i])
             import_path ==
                 IF norm = CURDIR THEN ProjectPath
                 ELSE IF ~IsAbs(norm) THEN NormPath(Join(ProjectPath, norm))
                 ELSE norm
         IN  IF norm = PARDIR THEN ImportLoop(nodes, i + 1, results)
             ELSE IF IsDir(import_path)
                  THEN ImportLoop(nodes, i + 1, Append(results, import_path))
             ELSE [ok |-> FALSE, paths |-> results]

_get_import_paths(nodes) ==
    LET r == ImportLoop(nodes, 1, <<>>) IN
    [ok |-> r.ok, paths |-> uniqify(r.paths)]

\* __init__, lines 146-151
GetImportPaths ==
    /\ pc = "imports"
    /\ LET r == _get_import_paths(imports_node) IN
       IF r.ok /\ Len(r.paths) > 0
       THEN /\ import_paths' = r.paths
            /\ pc' = "implicit_folders"
       ELSE /\ import_paths' = import_paths
            /\ pc' = "fatal"
    /\ UNCHANGED << variables_node, imports_node, folders_node, scripts_node,
                    variables, psc_paths, pex_paths, missing_scripts, game_type,
                    artifacts, mtime, options, filtered, commands >>

\* ------------------------------------------ _get_implicit_folder_imports
RECURSIVE ImplicitFolderLoop(_, _, _, _)
ImplicitFolderLoop(nodes, i, paths, implicit_paths) ==
    IF i > Len(nodes) THEN implicit_paths
    ELSE LET folder_path == NormPath(nodes[i].text)
             test_path == IF IsAbs(folder_path) THEN folder_path
                          ELSE Join(ProjectPath, folder_path)
         IN  IF IsDir(test_path) /\ ~InList(test_path, paths)
             THEN ImplicitFolderLoop(nodes, i + 1, paths, Append(implicit_paths, test_path))
             ELSE ImplicitFolderLoop(nodes, i + 1, paths, implicit_paths)

_get_implicit_folder_imports(nodes, paths) ==
    uniqify(ImplicitFolderLoop(nodes, 1, paths, <<>>))

\* __init__, lines 153-161
ImplicitFolderImports ==
    /\ pc = "implicit_folders"
    /\ LET implicit_folder_paths == _get_implicit_folder_imports(folders_node, import_paths) IN
       import_paths' = IF Len(implicit_folder_paths) > 0
                       THEN merge_implicit_import_paths(implicit_folder_paths, import_paths)
                       ELSE import_paths
    /\ pc' = "psc"
    /\ UNCHANGED << variables_node, imports_node, folders_node, scripts_node,
                    variables, psc_paths, pex_paths, missing_scripts, game_type,
                    artifacts, mtime, options, filtered, commands >>

\* ------------------------------------------------------- _get_psc_paths
\* object_names[object_name] = script_path, for each script_path in order,
\* lines 436-438 and 441-443
RECURSIVE AddScripts(_, _, _, _)
AddScripts(script_paths, i, paths, object_names) ==
    IF i > Len(script_paths) THEN object_names
    ELSE LET script_path == script_paths[i]
             object_name == IF ~IsAbs(script_path) THEN script_path
                            ELSE calculate_relative_object_name(script_path, paths)
         IN  AddScripts(script_paths, i + 1, paths,
                        DictPut(object_names, object_name, script_path))

\* the scans of one folder path found under the import roots, lines 528-532
RECURSIVE ImportRelativeScans(_, _, _, _)
ImportRelativeScans(folder_path, no_recurse, paths, i) ==
    IF i > Len(paths) THEN <<>>
    ELSE LET test_path == Join(paths[i], folder_path)
             here == IF IsDir(test_path)
                     THEN find_script_paths_from_folder(test_path, no_recurse)
                     ELSE <<>>
         IN  here \o ImportRelativeScans(folder_path, no_recurse, paths, i + 1)

\* a faulty FolderInsert: the cache directory is appended at the end
FolderInsert_Append(node, paths) ==
    IF node.text # PARDIR /\ node.text # CURDIR /\ IsRemote(node.text)
    THEN Append(paths, _get_remote_path(node.text))
    ELSE paths

\* the import roots after one Folder node: a remote folder's cache directory
\* is put first, line 510
FolderInsert(node, paths) ==
    IF node.text # PARDIR /\ node.text # CURDIR /\ IsRemote(node.text)
    THEN <<_get_remote_path(node.text)>> \o paths
    ELSE paths

\* _get_script_paths_from_folders_node: what one Folder node yields
FolderScan(node, paths) ==
    LET folder_path == NormPath(node.text)
        test_path   == Join(ProjectPath, folder_path)
    IN  IF node.text = PARDIR THEN <<>>
        ELSE IF node.text = CURDIR
             THEN find_script_paths_from_folder(ProjectPath, node.no_recurse)
        ELSE IF IsRemote(node.text)
             THEN find_script_paths_from_folder(_get_remote_path(node.text), node.no_recurse)
        ELSE IF IsAbs(folder_path) /\ IsDir(folder_path)
             THEN find_script_paths_from_folder(folder_path, node.no_recurse)
        ELSE IF IsDir(test_path)
             THEN find_script_paths_from_folder(test_path, node.no_recurse)
        ELSE ImportRelativeScans(folder_path, node.no_recurse, paths, 1)

\* lines 435-438: the generator runs interleaved with its consumer, so the
\* object names of a folder's scripts see the roots inserted so far
RECURSIVE FoldersLoop(_, _, _, _)
FoldersLoop(nodes, i, paths, object_names) ==
    IF i > Len(nodes) THEN [paths |-> paths, names |-> object_names]
    ELSE LET paths2 == FolderInsert(nodes[i], paths)
             found  == FolderScan(nodes[i], paths2)
         IN  FoldersLoop(nodes, i + 1, paths2, AddScripts(found, 1, paths2, object_names))

\* _get_script_paths_from_scripts_node
_get_script_paths_from_scripts_node(nodes) ==
    [i \in 1..Len(nodes) |-> NormPath(ReplaceColon(nodes[i]))]

\* the first import root under which script_path is a file, 0 if none
RECURSIVE FirstImportMatch(_, _, _)
FirstImportMatch(script_path, paths, i) ==
    IF i > Len(paths) THEN 0
    ELSE LET import_path == IF ~IsAbs(paths[i]) THEN Join(ProjectPath, paths[i])
                            ELSE paths[i]
         IN  IF IsSourceFile(Join(import_path, script_path)) THEN i
             ELSE FirstImportMatch(script_path, paths, i + 1)

\* lines 446-465: one user path made absolute; left as it is if nothing matches
ResolveScriptPath(script_path, paths) ==
    LET test_path == Join(ProjectPath, script_path)
        m == FirstImportMatch(script_path, paths, 1)
    IN  IF IsAbs(script_path) /\ IsSourceFile(script_path) THEN script_path
        ELSE IF IsSourceFile(test_path) THEN test_path
        ELSE IF m # 0
             THEN Join(IF ~IsAbs(paths[m]) THEN Join(ProjectPath, paths[m]) ELSE paths[m],
                       script_path)
        ELSE script_path

\* a faulty CollectObjectNames: the Scripts node's entries first, then the
\* folder-derived ones
CollectObjectNames_FoldersLast(folders, scripts, paths) ==
    FoldersLoop(folders, 1, paths,
                AddScripts(_get_script_paths_from_scripts_node(scripts), 1, paths, <<>>))

\* folder-derived entries first, then the Scripts node's entries
CollectObjectNames(folders, scripts, paths) ==
    LET f == FoldersLoop(folders, 1, paths, <<>>) IN
    [paths |-> f.paths,
     names |-> AddScripts(_get_script_paths_from_scripts_node(scripts), 1, f.paths, f.names)]

_get_psc_paths(folders, scripts, paths) ==
    LET c == CollectObjectNames(folders, scripts, paths) IN
    [paths |-> c.paths,
     names |-> [i \in 1..Len(c.names) |->
                   <<c.names[i][1], ResolveScriptPath(c.names[i][2], c.paths)>>]]

\* __init__, lines 163-169
GetPscPaths ==
    /\ pc = "psc"
    /\ LET r == _get_psc_paths(folders_node, scripts_node, import_paths) IN
       /\ import_paths' = r.paths
       /\ psc_paths' = r.names
       /\ pc' = IF Len(r.names) = 0 THEN "fatal" ELSE "implicit_scripts"
    /\ UNCHANGED << variables_node, imports_node, folders_node, scripts_node,
                    variables, pex_paths, missing_scripts, game_type,
                    artifacts, mtime, options, filtered, commands >>

\* ------------------------------------------ _get_implicit_script_imports
\* lines 401-411, for one script folder
RECURSIVE ImplicitScriptInner(_, _, _, _)
ImplicitScriptInner(script_folder_path, paths, j, implicit_paths) ==
    IF j > Len(paths) THEN implicit_paths
    ELSE IF script_folder_path = <<>>
         \* os.path.relpath('') raises ValueError: warning, continue
         THEN ImplicitScriptInner(script_folder_path, paths, j + 1, implicit_paths)
    ELSE LET relpath   == RelPath(script_folder_path, paths[j], Cwd)
             test_path == NormPath(Join(paths[j], relpath))
         IN  IF IsDir(test_path) /\ ~InList(test_path, paths)
             THEN ImplicitScriptInner(script_folder_path, paths, j + 1,
                                      Append(implicit_paths, test_path))
             ELSE ImplicitScriptInner(script_folder_path, paths, j + 1, implicit_paths)

RECURSIVE ImplicitScriptLoop(_, _, _, _)
ImplicitScriptLoop(scripts, i, paths, implicit_paths) ==
    IF i > Len(scripts) THEN implicit_paths
    ELSE ImplicitScriptLoop(scripts, i + 1, paths,
             ImplicitScriptInner(DirName(scripts[i][2]), paths, 1, implicit_paths))

_get_implicit_script_imports(scripts, paths) ==
    uniqify(ImplicitScriptLoop(scripts, 1, paths, <<>>))

\* __init__, lines 171-179
ImplicitScriptImports ==
    /\ pc = "implicit_scripts"
    /\ LET implicit_script_paths == _get_implicit_script_imports(psc_paths, import_paths) IN
       import_paths' = IF Len(implicit_script_paths) > 0
                       THEN merge_implicit_import_paths(implicit_script_paths, import_paths)
                       ELSE import_paths
    /\ pc' = "game_type"
    /\ UNCHANGED << variables_node, imports_node, folders_node, scripts_node,
                    variables, psc_paths, pex_paths, missing_scripts, game_type,
                    artifacts, mtime, options, filtered, commands >>

\* __init__, lines 181-196: the game type comes from the arguments or the
\* descriptor
SetGameType ==
    /\ pc = "game_type"
    /\ \E g \in GameTypes : game_type' = g
    /\ pc' = "pex"
    /\ UNCHANGED << variables_node, imports_node, folders_node, scripts_node,
                    variables, import_paths, psc_paths, pex_paths, missing_scripts,
                    artifacts, mtime, options, filtered, commands >>

\* ------------------------------------------------------- _get_pex_paths
\* the expected artifact of an object name, lines 332 and 422
PexPathOf(object_name) == Join(OutputPath, ReplacePscPex(object_name))

RECURSIVE PexLoop(_, _, _)
PexLoop(scripts, i, acc) ==
    IF i > Len(scripts) THEN acc
    ELSE LET pex_path == PexPathOf(scripts[i][1]) IN
         PexLoop(scripts, i + 1, IF ~InList(pex_path, acc) THEN Append(acc, pex_path) ELSE acc)

_get_pex_paths(scripts) == PexLoop(scripts, 1, <<>>)

\* __init__, line 199
GetPexPaths ==
    /\ pc = "pex"
    /\ pex_paths' = _get_pex_paths(psc_paths)
    /\ pc' = "missing"
    /\ UNCHANGED << variables_node, imports_node, folders_node, scripts_node,
                    variables, import_paths, psc_paths, missing_scripts, game_type,
                    artifacts, mtime, options, filtered, commands >>

\* --------------------------------------------- _find_missing_script_paths
RECURSIVE MissingLoop(_, _, _, _, _)
MissingLoop(scripts, i, paths, art, results) ==
    IF i > Len(scripts) THEN results
    ELSE LET script_path == scripts[i][2]
             pex_path    == PexPathOf(scripts[i][1])
             object_name == IF ~IsAbs(script_path) THEN script_path
                            ELSE calculate_relative_object_name(script_path, paths)
         IN  IF ~IsFile(art, pex_path) /\ script_path \notin Keys(results)
             THEN MissingLoop(scripts, i + 1, paths, art,
                              DictPut(results, object_name, script_path))
             ELSE MissingLoop(scripts, i + 1, paths, art, results)

_find_missing_script_paths(scripts, paths, art) == MissingLoop(scripts, 1, paths, art, <<>>)

\* __init__, line 202; the artifacts on disk are first looked at here, and
\* only those at the expected locations are ever looked at
FindMissingScriptPaths ==
    /\ pc = "missing"
    /\ \E art \in [PexUniverse -> ArtifactStates] :
          /\ \A p \in PexUniverse : ~InList(p, pex_paths) => art[p] = Absent
          /\ artifacts' = art
          /\ missing_scripts' = _find_missing_script_paths(psc_paths, import_paths, art)
    /\ pc' = "ready"
    /\ UNCHANGED << variables_node, imports_node, folders_node, scripts_node,
                    variables, import_paths, psc_paths, pex_paths, game_type,
                    mtime, options, filtered, commands >>

\* ------------------------------------- _try_exclude_unmodified_scripts
\* lines 549-553: the first expected artifact whose path ends with the
\* script's base name; '' if none
RECURSIVE MatchingPath(_, _, _)
MatchingPath(script_name, pexs, i) ==
    IF i > Len(pexs) THEN <<>>
    ELSE IF EndsWith(pexs[i], script_name \o <<PEX>>) THEN pexs[i]
    ELSE MatchingPath(script_name, pexs, i + 1)

\* lines 564-566: whether the time stamps leave the script unselected
Unmodified(source_mtime, compiled_time) == source_mtime < compiled_time

\* ok = FALSE: os.path.getmtime raised on a path that is no file
RECURSIVE ExcludeLoop(_, _, _, _, _, _)
ExcludeLoop(scripts, i, pexs, art, mt, result) ==
    IF i > Len(scripts) THEN [ok |-> TRUE, names |-> result]
    ELSE LET object_name   == scripts[i][1]
             script_path   == scripts[i][2]
             script_name   == SplitExtRoot(BaseName(script_path))
             matching_path == MatchingPath(script_name, pexs, 1)
             header        == ArtifactAt(art, matching_path)
         IN  IF ~IsFile(art, matching_path)
             THEN ExcludeLoop(scripts, i + 1, pexs, art, mt, result)
             ELSE IF header.kind = "badmagic"
             THEN ExcludeLoop(scripts, i + 1, pexs, art, mt, result)
             ELSE IF ~IsSourceFile(script_path)
             THEN [ok |-> FALSE, names |-> result]
             ELSE IF Unmodified(mt, header.time)
             THEN ExcludeLoop(scripts, i + 1, pexs, art, mt, result)
             ELSE IF script_path \notin Keys(result)
             THEN ExcludeLoop(scripts, i + 1, pexs, art, mt,
                              DictPut(result, object_name, script_path))
             ELSE ExcludeLoop(scripts, i + 1, pexs, art, mt, result)

_try_exclude_unmodified_scripts(scripts, pexs, art, mt) ==
    ExcludeLoop(scripts, 1, pexs, art, mt, <<>>)

\* ------------------------------------------------------- build_commands
_can_remove_folder(import_path, object_name, script_path) ==
    /\ StartsWith(Lower(script_path), Lower(import_path))
    /\ Join(Lower(import_path), Lower(object_name)) # Lower(script_path)

\* a faulty SelectScripts: the filter runs in every mode
SelectScripts_AlwaysFilter(no_incremental_build, scripts, pexs, art, mt) ==
    _try_exclude_unmodified_scripts(scripts, pexs, art, mt)

\* lines 585-588: the scripts the filter mode selects
SelectScripts(no_incremental_build, scripts, pexs, art, mt) ==
    IF no_incremental_build THEN [ok |-> TRUE, names |-> scripts]
    ELSE _try_exclude_unmodified_scripts(scripts, pexs, art, mt)

\* lines 591-593
RECURSIVE AddMissing(_, _, _)
AddMissing(missing, i, scripts) ==
    IF i > Len(missing) THEN scripts
    ELSE AddMissing(missing, i + 1,
                    IF missing[i][1] \notin Keys(scripts)
                    THEN DictPut(scripts, missing[i][1], missing[i][2])
                    ELSE scripts)

\* lines 606-608: reversed() walks the indices of the list it is removing
\* from, and stops if its index falls off the end
RECURSIVE PruneLoop(_, _, _, _)
PruneLoop(paths, idx, object_name, script_path) ==
    IF idx = 0 \/ idx > Len(paths) THEN paths
    ELSE IF _can_remove_folder(paths[idx], object_name, script_path)
         THEN PruneLoop(ListRemove(paths, paths[idx]), idx - 1, object_name, script_path)
         ELSE PruneLoop(paths, idx - 1, object_name, script_path)

\* lines 599-608: the roots of one script's command, given the shared list
PrunedPaths(game, paths, object_name, script_path) ==
    IF game = "FO4" THEN PruneLoop(paths, Len(paths), object_name, script_path)
    ELSE paths

\* a faulty Arguments: the release flag is appended for any game type
Arguments_ReleaseAnyFamily(game, opts, ref, paths) ==
    << [key |-> "",  value |-> CompilerPath],
       [key |-> "",  value |-> ref],
       [key |-> "f", value |-> FlagsPath],
       [key |-> "i", value |-> JoinSemi(paths)],
       [key |-> "o", value |-> OutputPath] >>
    \o (IF opts.release THEN << [key |-> "", value |-> <<"-release">>] >> ELSE <<>>)
    \o (IF game = "FO4" /\ opts.final   THEN << [key |-> "", value |-> <<"-final">>] >>   ELSE <<>>)
    \o (IF opts.optimize THEN << [key |-> "", value |-> <<"-op">>] >> ELSE <<>>)

\* lines 610-629
Arguments(game, opts, ref, paths) ==
    << [key |-> "",  value |-> CompilerPath],
       [key |-> "",  value |-> ref],
       [key |-> "f", value |-> FlagsPath],
       [key |-> "i", value |-> JoinSemi(paths)],
       [key |-> "o", value |-> OutputPath] >>
    \o (IF game = "FO4" /\ opts.release THEN << [key |-> "", value |-> <<"-release">>] >> ELSE <<>>)
    \o (IF game = "FO4" /\ opts.final   THEN << [key |-> "", value |-> <<"-final">>] >>   ELSE <<>>)
    \o (IF opts.optimize THEN << [key |-> "", value |-> <<"-op">>] >> ELSE <<>>)

\* lines 598-630
RECURSIVE CommandLoop(_, _, _, _, _, _)
CommandLoop(scripts, i, game, opts, shared, acc) ==
    IF i > Len(scripts) THEN acc
    ELSE LET script_path == scripts[i][2]
             ref    == IF game # "FO4" THEN script_path ELSE scripts[i][1]
             \* line 599 binds the shared list, it does not copy it: what is
             \* removed for this script stays removed for the next ones
             pruned == PrunedPaths(game, shared, ref, script_path)
             cmd    == [object_name  |-> ref,
                        script_path  |-> script_path,
                        import_paths |-> pruned,
                        args         |-> Arguments(game, opts, ref, pruned)]
         IN  CommandLoop(scripts, i + 1, game, opts, pruned, Append(acc, cmd))

\* self.import_paths when the loop has ended: what the last command left of
\* it, lines 599-608
SharedAfterLoop(cmds, shared) ==
    IF Len(cmds) = 0 THEN shared ELSE cmds[Len(cmds)].import_paths

\* a faulty RestoreImportPaths: the shared list is left as the loop left it
RestoreImportPaths_NoRestore(source_import_paths, after_loop) == after_loop

\* lines 595 and 632: the copy taken on entry is put back
RestoreImportPaths(source_import_paths, after_loop) == source_import_paths

\* build_commands; the options may be overridden by arguments after
\* construction (line 85), so they are read here
BuildCommands ==
    /\ pc = "ready"
    /\ \E opts \in [no_incremental_build : BOOLEAN, optimize : BOOLEAN,
                    release : BOOLEAN, final : BOOLEAN],
          mt \in Times :
          LET sel == SelectScripts(opts.no_incremental_build, psc_paths, pex_paths,
                                   artifacts, mt)
              all == AddMissing(missing_scripts, 1, sel.names)
          IN  /\ options' = opts
              /\ mtime' = mt
              /\ filtered' = sel.names
              /\ IF sel.ok
                 THEN /\ commands' = CommandLoop(all, 1, game_type, opts,
                                                 import_paths, <<>>)
                      /\ import_paths' =
                            RestoreImportPaths(import_paths,
                                               SharedAfterLoop(commands', import_paths))
                      \* line 586 binds self.psc_paths, line 593 writes to it
                      /\ psc_paths' = IF opts.no_incremental_build THEN all ELSE psc_paths
                      /\ pc' = "built"
                 ELSE /\ commands' = commands
                      /\ import_paths' = import_paths
                      /\ psc_paths' = psc_paths
                      /\ pc' = "crashed"
    /\ UNCHANGED << variables_node, imports_node, folders_node, scripts_node,
                    variables, pex_paths, missing_scripts, game_type, artifacts >>

Next ==
    \/ GetImportPaths
    \/ ImplicitFolderImports
    \/ GetPscPaths
    \/ ImplicitScriptImports
    \/ SetGameType
    \/ GetPexPaths
    \/ FindMissingScriptPaths
    \/ BuildCommands

Spec == Init /\ [][Next]_vars

NextVars ==
    \/ ParseVariables
    \/ GetImportPaths

SpecVars == InitVars /\ [][NextVars]_vars

\* ------------------------------------------------------------------ claims
\* the permutations of 1..n
Perms(n) == { f \in [1..n -> 1..n] : \A i, j \in 1..n : f[i] = f[j] => i = j }

\* a dict as a set of pairs, its order forgotten
AsMap(d) == { d[i] : i \in 1..Len(d) }

\* no value holds a token that names a declared variable
IsFixedPoint(table) ==
    \A i \in 1..Len(table) : \A k \in 1..Len(table[i][2]) :
        IsToken(table[i][2][k]) => TokenName(table[i][2][k]) \notin Keys(table)

\* C7: for every permutation of a non-cyclic variable table the two passes of
\* _parse_variables give every variable the same final value, and that value
\* holds no token naming a declared variable.
C7_OrderIndependentFixedPoint ==
    (pc = "imports" /\ variables_node \in NonCyclicTables) =>
        /\ IsFixedPoint(variables)
        /\ \A f \in Perms(Len(variables_node)) :
              AsMap(_parse_variables([i \in 1..Len(variables_node) |-> variables_node[f[i]]]).table)
                  = AsMap(variables)

\* the expected artifact of the i-th script of the table
OwnArtifact(i) == ArtifactAt(artifacts, PexPathOf(psc_paths[i][1]))

\* some command compiles script_path
HasCommand(script_path) ==
    \E j \in 1..Len(commands) : commands[j].script_path = script_path

\* C1: for FO4 the roots of every command are the full shared list, as it
\* stood on entry to build_commands, pruned for that command's script alone.
C1_PruningIsPerScript ==
    (pc = "built" /\ game_type = "FO4") =>
        \A j \in 1..Len(commands) :
            commands[j].import_paths =
                PruneLoop(import_paths, Len(import_paths),
                          commands[j].object_name, commands[j].script_path)

\* C2: for FO4 every root that, joined with the script's object name, gives
\* the script's real path is among the roots of that script's command.
C2_ResolvingRootKept ==
    (pc = "built" /\ game_type = "FO4") =>
        \A j \in 1..Len(commands) : \A r \in 1..Len(import_paths) :
            Lower(Join(import_paths[r], commands[j].object_name))
                    = Lower(commands[j].script_path)
                => InList(import_paths[r], commands[j].import_paths)

\* C3: in incremental mode a script whose own artifact has a readable header
\* with compile time T is compiled if and only if the source's modification
\* time is strictly greater than T.
C3_SelectedIffStrictlyNewer ==
    (pc = "built" /\ ~options.no_incremental_build) =>
        \A i \in 1..Len(psc_paths) :
            OwnArtifact(i).kind = "pex" =>
                (HasCommand(psc_paths[i][2]) <=> mtime > OwnArtifact(i).time)

\* C4: every script of the table that has no artifact at its expected
\* location gets a command, in either filter mode.
C4_MissingArtifactCompiled ==
    pc = "built" =>
        \A i \in 1..Len(psc_paths) :
            OwnArtifact(i).kind = "absent" => HasCommand(psc_paths[i][2])

\* C5: in incremental mode a script whose own artifact has an unrecognized
\* magic is not selected by the incremental filter, whatever the source's
\* modification time is.
C5_BadMagicNotSelected ==
    (pc \in {"built", "crashed"} /\ ~options.no_incremental_build) =>
        \A i \in 1..Len(psc_paths) :
            OwnArtifact(i).kind = "badmagic" => psc_paths[i][2] \notin Values(filtered)

\* C6: in force-full-rebuild mode build_commands selects the whole script
\* table, whatever the artifacts and time stamps are, and emits a command for
\* every script record of it.
C6_FullRebuildCompilesAll ==
    [][ (pc = "ready" /\ options'.no_incremental_build) =>
          /\ pc' = "built"
          /\ filtered' = psc_paths
          /\ \A i \in 1..Len(psc_paths) :
                \E j \in 1..Len(commands') :
                    /\ commands'[j].script_path = psc_paths[i][2]
                    /\ commands'[j].object_name =
                          IF game_type = "FO4" THEN psc_paths[i][1] ELSE psc_paths[i][2] ]_vars

\* C6 witness: a full rebuild that compiled a script whose artifact is newer
\* than the source and a script whose artifact has an unreadable header
C6_Witness ==
    /\ pc = "built"
    /\ options.no_incremental_build
    /\ \E i \in 1..Len(psc_paths) :
          /\ OwnArtifact(i).kind = "pex" /\ OwnArtifact(i).time > mtime
          /\ HasCommand(psc_paths[i][2])
    /\ \E i \in 1..Len(psc_paths) :
          /\ OwnArtifact(i).kind = "badmagic"
          /\ HasCommand(psc_paths[i][2])

\* no two roots are the same directory, case-insensitively and normalized
NoDuplicateRoots(paths) ==
    \A i, j \in 1..Len(paths) :
        Lower(NormPath(paths[i])) = Lower(NormPath(paths[j])) => i = j

\* C8: at every point of planning the import-root sequence holds no two
\* entries that are the same directory.
C8_NoDuplicateRoots == NoDuplicateRoots(import_paths)

RECURSIVE RemoteFolderRoots(_)
RemoteFolderRoots(nodes) ==
    IF Len(nodes) = 0 THEN <<>>
    ELSE RemoteFolderRoots(Tail(nodes))
         \o (IF IsRemote(nodes[1].text) THEN <<_get_remote_path(nodes[1].text)>> ELSE <<>>)

\* paths is: front, then kept in its order, then appended roots
KeepsOrder(paths, front, kept) ==
    /\ Len(paths) >= Len(front) + Len(kept)
    /\ SubSeq(paths, 1, Len(front)) = front
    /\ SubSeq(paths, Len(front) + 1, Len(front) + Len(kept)) = kept

ExplicitPath(text) == NormPath(ReplaceColon(text))

\* C10: when a folder-derived script and a Script node resolve to the same
\* object name, the table maps that name to the Script node's path; object
\* names are unique keys.
C10_ExplicitOverridesFolder ==
    [][ pc = "psc" =>
          LET f == FoldersLoop(folders_node, 1, import_paths, <<>>) IN
          /\ Cardinality(Keys(psc_paths')) = Len(psc_paths')
          /\ \A s \in 1..Len(scripts_node) :
                LET k == ExplicitPath(scripts_node[s]) IN
                (~IsAbs(k) /\ k \in Keys(f.names)) =>
                    DictGet(psc_paths', k) = ResolveScriptPath(k, import_paths') ]_vars

\* C10 witness: the table holds, under an object name that a folder scan
\* also produced, the Script node's file and not the folder's
C10_Witness ==
    /\ pc = "implicit_scripts"
    /\ \A n \in 1..Len(folders_node) : ~IsRemote(folders_node[n].text)
    /\ \E s \in 1..Len(scripts_node) :
          LET k == ExplicitPath(scripts_node[s])
              f == FoldersLoop(folders_node, 1, import_paths, <<>>)
          IN  /\ k \in Keys(f.names)
              /\ DictGet(f.names, k) # DictGet(psc_paths, k)
              /\ DictGet(psc_paths, k) = ResolveScriptPath(k, import_paths)

\* the path an Import node stands for, lines 348-364
ImportTarget(text) ==
    IF IsRemote(text) THEN _get_remote_path(text)
    ELSE LET norm == NormPath(text) IN
         IF norm = CURDIR THEN ProjectPath
         ELSE IF ~IsAbs(norm) THEN NormPath(Join(ProjectPath, norm))
         ELSE norm

\* C11: once explicit import resolution has run, if some declared import,
\* local or remote, stands for a path that is no existing directory then
\* planning has aborted and there is no command; otherwise every root that
\* explicit import resolution returned is an existing directory.
C11_ImportRootsExist ==
    pc # "imports" =>
        IF \E i \in 1..Len(imports_node) :
               NormPath(imports_node[i]) # PARDIR /\ ~IsDir(ImportTarget(imports_node[i]))
        THEN pc = "fatal" /\ commands = <<>>
        ELSE \A i \in 1..Len(_get_import_paths(imports_node).paths) :
                 IsDir(_get_import_paths(imports_node).paths[i])

\* the Import nodes that are not the parent-directory token
OtherImports(nodes) == SelectSeq(nodes, LAMBDA t : NormPath(t) # PARDIR)

\* C12 as claimed: a parent-directory import never makes planning abort:
\* when every other declared import resolves, explicit import resolution
\* does not end fatally, also when the token is the only declared import.
C12_PardirNeverAborts ==
    [][ (/\ pc = "imports"
         /\ InList(PARDIR, imports_node)
         /\ _get_import_paths(OtherImports(imports_node)).ok) => pc' # "fatal" ]_vars

\* C12, amended: a parent-directory import is skipped and never added to the
\* roots, and planning goes on exactly as for the descriptor without it: with
\* the other roots, or to the fatal end that a descriptor with no usable
\* import has, as when the token is the only declared import.
C12_PardirSkipped ==
    [][ (pc = "imports" /\ InList(PARDIR, imports_node)) =>
          LET r == _get_import_paths(OtherImports(imports_node)) IN
          /\ (pc' = "fatal") <=> (~r.ok \/ Len(r.paths) = 0)
          /\ pc' # "fatal" => (pc' = "implicit_folders" /\ import_paths' = r.paths)
          /\ \A i \in 1..Len(import_paths') :
                import_paths'[i] \notin {PARDIR, NormPath(Join(ProjectPath, PARDIR))} ]_vars

\* C12 witness: planning went on with the other root of a descriptor that
\* declares the parent-directory token first
C12_Witness ==
    /\ pc = "implicit_folders"
    /\ Len(imports_node) = 2
    /\ imports_node[1] = PARDIR
    /\ import_paths = <<ImportTarget(imports_node[2])>>

\* C13: whenever planning has gone on past script location, every script
\* record's source path is an absolute path of an existing file (a candidate
\* that matches no file has ended the build instead).
C13_ScriptPathsResolved ==
    pc \in {"implicit_scripts", "game_type", "pex", "missing", "ready", "built", "crashed"} =>
        \A i \in 1..Len(psc_paths) :
            IsAbs(psc_paths[i][2]) /\ IsSourceFile(psc_paths[i][2])

\* C14: for a game type other than FO4 every command's script reference is
\* the script's absolute source path, not its object name, and its roots
\* are the full shared list, nothing pruned.
C14_OtherFamiliesPassPath ==
    (pc = "built" /\ game_type # "FO4") =>
        \A j \in 1..Len(commands) :
            /\ commands[j].script_path \in Values(psc_paths) \cup Values(missing_scripts)
            /\ commands[j].args[2].value = commands[j].script_path
            /\ IsAbs(commands[j].args[2].value)
            /\ commands[j].import_paths = import_paths
            /\ commands[j].args[4] = [key |-> "i", value |-> JoinSemi(import_paths)]

\* the values of the arguments of a command that come after the fifth
FlagValues(cmd) == [k \in 1..(Len(cmd.args) - 5) |-> cmd.args[k + 5].value]

\* C15: every command is, in this order: the compiler path, the script
\* reference, the flags file (key f), the semicolon-joined roots (key i), the
\* output directory (key o), then -release and -final only for FO4 and only
\* when set, then -op whenever optimize is set; no -release or -final in a
\* command of another game type.
C15_CommandLayout ==
    pc = "built" =>
        \A j \in 1..Len(commands) :
            LET cmd == commands[j] IN
            /\ Len(cmd.args) >= 5
            /\ cmd.args[1] = [key |-> "", value |-> CompilerPath]
            /\ cmd.args[2] = [key |-> "", value |-> cmd.object_name]
            /\ cmd.args[3] = [key |-> "f", value |-> FlagsPath]
            /\ cmd.args[4] = [key |-> "i", value |-> JoinSemi(cmd.import_paths)]
            /\ cmd.args[5] = [key |-> "o", value |-> OutputPath]
            /\ \A k \in 6..Len(cmd.args) : cmd.args[k].key = ""
            /\ FlagValues(cmd) =
                  SelectSeq(<< <<"-release">>, <<"-final">>, <<"-op">> >>,
                            LAMBDA v :
                                \/ v = <<"-release">> /\ game_type = "FO4" /\ options.release
                                \/ v = <<"-final">>   /\ game_type = "FO4" /\ options.final
                                \/ v = <<"-op">>      /\ options.optimize)

\* C15 witness: an FO4 command that carries the three flags
C15_Witness ==
    /\ pc = "built"
    /\ game_type = "FO4"
    /\ options.release /\ options.final /\ options.optimize
    /\ Len(commands) > 0
    /\ FlagValues(commands[1]) = << <<"-release">>, <<"-final">>, <<"-op">> >>

\* C16: build_commands produces one command per selected source script: as
\* many commands as distinct scripts selected by the filter or by having no
\* artifact, and no script compiled by two commands.
C16_OneCommandPerScript ==
    pc = "built" =>
        /\ Len(commands) = Cardinality(Values(filtered) \cup Values(missing_scripts))
        /\ \A j, k \in 1..Len(commands) :
              commands[j].script_path = commands[k].script_path => j = k

\* a declaration whose name is no non-empty alphanumeric token or whose
\* value holds a reserved character
BadDeclaration(node) == ~IsAlnum(node.Name) \/ HasReserved(node.Value)

\* a declaration the loop looks at: its name and its value are not empty
Considered(node) == node.Name # <<>> /\ node.Value # <<>>

\* C17 as claimed: a table with a declaration whose name is no non-empty
\* alphanumeric token, or whose value holds a reserved character, ends
\* planning at once: no such declaration in the variable table, no command.
C17_BadDeclarationFatal ==
    [][ (pc = "variables" /\ \E i \in 1..Len(variables_node) : BadDeclaration(variables_node[i])) =>
          /\ pc' = "fatal"
          /\ commands' = <<>>
          /\ \A i \in 1..Len(variables_node) :
                BadDeclaration(variables_node[i]) => variables_node[i].Name \notin Keys(variables') ]_vars

\* C17, amended: a declaration with an empty name or an empty value is
\* skipped and never enters the table; any other declaration whose name is
\* not alphanumeric, or whose value holds a reserved character, ends planning
\* at once, with the declarations before it in the table, and no command.
\* A table without such a declaration goes on to import resolution.
C17_BadDeclarationFatalUnlessEmpty ==
    [][ pc = "variables" =>
          LET fatal(i) == Considered(variables_node[i]) /\ BadDeclaration(variables_node[i])
              entered  == { variables_node[i].Name :
                              i \in { k \in 1..Len(variables_node) :
                                        /\ Considered(variables_node[k])
                                        /\ \A h \in 1..k : ~fatal(h) } }
          IN  /\ pc' = IF \E i \in 1..Len(variables_node) : fatal(i) THEN "fatal" ELSE "imports"
              /\ Keys(variables') = entered
              /\ commands' = <<>> ]_vars

\* C17 witness: planning ended at a declaration with a reserved character,
\* after a declaration with an empty name was skipped
C17_Witness ==
    /\ pc = "fatal"
    /\ Len(variables_node) = 2
    /\ variables_node[1].Name = <<>> /\ variables_node[1].Value # <<>>
    /\ variables_node[2].Name = <<"a">> /\ HasReserved(variables_node[2].Value)
    /\ variables = <<>>

\* C18: in incremental mode the artifact that decides a script is the
\* script's own expected artifact: the filter selects the script exactly
\* when that artifact has a readable header whose compile time does not
\* leave the script unmodified; no other script's artifact has a say.
C18_OwnArtifactDecides ==
    (pc = "built" /\ ~options.no_incremental_build) =>
        \A i \in 1..Len(psc_paths) :
            InList(psc_paths[i], filtered) <=>
                (OwnArtifact(i).kind = "pex" /\ ~Unmodified(mtime, OwnArtifact(i).time))

\* path lies in the directory tree of root (case-insensitively)
LiesUnder(path, root) ==
    StartsWith(Lower(path),
               Lower(IF root[Len(root)] = SEP THEN root ELSE root \o <<SEP>>))

\* the roots the j-th command was pruned from
RootsBefore(j) == IF j = 1 THEN import_paths ELSE commands[j - 1].import_paths

\* C19: for FO4 a root is pruned from a command only if the script's path
\* lies in that root's directory tree and root plus object name is not the
\* script's path; a root that is only a string prefix of the script's path
\* is not pruned.
C19_PrunedOnlyIfAncestor ==
    (pc = "built" /\ game_type = "FO4") =>
        \A j \in 1..Len(commands) : \A r \in 1..Len(RootsBefore(j)) :
            LET root == RootsBefore(j)[r] IN
            ~InList(root, commands[j].import_paths) =>
                /\ LiesUnder(commands[j].script_path, root)
                /\ Lower(Join(root, commands[j].object_name)) # Lower(commands[j].script_path)

\* C20: when build_commands returns, the shared import-root list is what it
\* was when build_commands was entered, in content and order, whatever the
\* game type, the filter mode and the scripts selected.
C20_SharedRootsRestored ==
    [][ (pc = "ready" /\ pc' = "built") => import_paths' = import_paths ]_vars

\* C20 witness: build_commands has returned after pruning a root for an FO4
\* command, and the shared list holds that root
C20_Witness ==
    /\ pc = "built"
    /\ game_type = "FO4"
    /\ \E j \in 1..Len(commands) : \E r \in 1..Len(import_paths) :
          ~InList(import_paths[r], commands[j].import_paths)
=============================================================================
